---- MODULE Spec2Model ----
(***************************************************************************)
(* Directory Analyzer (open-sponsor): a CLI that remembers a list of       *)
(* directories in a JSON file and scores them (index.js), using a          *)
(* dependency-usage scan (lib/dependencyAnalyzer.js), an import scan       *)
(* (lib/importAnalyzer.js) and a weighted package ranking                  *)
(* (lib/scoreCalculator.js).                                               *)
(*                                                                         *)
(* Strings the program takes apart (paths, version ranges) are sequences   *)
(* of one-character strings; names it only compares are TLA+ strings.      *)
(* Timestamps are whole days (the code works in milliseconds and divides   *)
(* by 1000*60*60*24).  A JavaScript number is an integer or NaN.           *)
(***************************************************************************)
EXTENDS Integers, Sequences, FiniteSets, TLC

\* ------------------------------------------------------------------ bounds

\* longest text typed at the prompt
MaxLen == 2
\* invocations that add a directory are started while fewer are stored
MaxStored == 3

\* ------------------------------------------------------------- JS numbers

\* A JavaScript value is a number (NaN included) or an object.
Num(n) == [type |-> "number", nan |-> FALSE, v |-> n]

NaN == [type |-> "number", nan |-> TRUE, v |-> 0]

Obj(o) == [type |-> "object", v |-> o]

IsNum(x) == x.type = "number" /\ ~x.nan

\* ToNumber: an object converts to NaN
ToNumber(x) == IF x.type = "number" THEN x ELSE NaN

Plus(a, b) ==
    LET x == ToNumber(a)
        y == ToNumber(b)
    IN  IF IsNum(x) /\ IsNum(y) THEN Num(x.v + y.v) ELSE NaN

MathMin(a, b) ==
    LET x == ToNumber(a)
        y == ToNumber(b)
    IN  IF IsNum(x) /\ IsNum(y) THEN (IF x.v < y.v THEN x ELSE y) ELSE NaN

MathMax(a, b) ==
    LET x == ToNumber(a)
        y == ToNumber(b)
    IN  IF IsNum(x) /\ IsNum(y) THEN (IF x.v > y.v THEN x ELSE y) ELSE NaN

\* a > b of JavaScript: false as soon as one side converts to NaN
Greater(a, b) ==
    LET x == ToNumber(a)
        y == ToNumber(b)
    IN  IsNum(x) /\ IsNum(y) /\ x.v > y.v

\* ------------------------------------------------------------------ paths

\* Not character sequences: the value undefined, and a thrown TypeError.
Undefined == <<"undefined">>
TypeError == <<"TypeError">>

\* process.cwd() and the value of HOME when it is set
Cwd == <<"/", "c">>
HomeDir == <<"/", "h">>

RECURSIVE SplitSegs(_, _, _)
\* the segments of p between "/" characters
SplitSegs(p, cur, acc) ==
    IF p = <<>> THEN Append(acc, cur)
    ELSE IF Head(p) = "/" THEN SplitSegs(Tail(p), <<>>, Append(acc, cur))
    ELSE SplitSegs(Tail(p), Append(cur, Head(p)), acc)

RECURSIVE JoinSegs(_)
JoinSegs(segs) ==
    IF segs = <<>> THEN <<>>
    ELSE IF Len(segs) = 1 THEN Head(segs)
    ELSE Head(segs) \o <<"/">> \o JoinSegs(Tail(segs))

RECURSIVE normalizeString(_, _, _)
\* drops empty and "." segments and resolves ".." against the segment before
normalizeString(segs, res, allowAboveRoot) ==
    IF segs = <<>> THEN res
    ELSE LET s == Head(segs)
             rest == Tail(segs)
         IN  IF s = <<>> \/ s = <<".">>
             THEN normalizeString(rest, res, allowAboveRoot)
             ELSE IF s = <<".", ".">>
             THEN IF res # <<>> /\ res[Len(res)] # <<".", ".">>
                  THEN normalizeString(rest, SubSeq(res, 1, Len(res) - 1), allowAboveRoot)
                  ELSE IF allowAboveRoot
                  THEN normalizeString(rest, Append(res, s), allowAboveRoot)
                  ELSE normalizeString(rest, res, allowAboveRoot)
             ELSE normalizeString(rest, Append(res, s), allowAboveRoot)

\* path.normalize: keeps a trailing separator
normalize(p) ==
    IF p = <<>> THEN <<".">>
    ELSE LET isAbsolute == p[1] = "/"
             trailing == p[Len(p)] = "/"
             body == JoinSegs(normalizeString(SplitSegs(p, <<>>, <<>>), <<>>, ~isAbsolute))
         IN  IF body = <<>>
             THEN (IF isAbsolute THEN <<"/">>
                   ELSE IF trailing THEN <<".", "/">> ELSE <<".">>)
             ELSE (IF isAbsolute THEN <<"/">> ELSE <<>>) \o body
                  \o (IF trailing THEN <<"/">> ELSE <<>>)

\* path.join(a, b); a non-string argument is a TypeError
pathJoin(a, b) ==
    IF a = Undefined \/ b = Undefined THEN TypeError
    ELSE LET joined == IF a = <<>> THEN b
                       ELSE IF b = <<>> THEN a
                       ELSE a \o <<"/">> \o b
         IN  IF joined = <<>> THEN <<".">> ELSE normalize(joined)

\* path.resolve(p): absolute, normalized, no trailing separator
pathResolve(p) ==
    LET full == IF p = <<>> THEN Cwd
                ELSE IF p[1] = "/" THEN p
                ELSE Cwd \o <<"/">> \o p
    IN  <<"/">> \o JoinSegs(normalizeString(SplitSegs(full, <<>>, <<>>), <<>>, FALSE))

expandTilde(filePath, home) ==
    IF filePath # <<>> /\ filePath[1] = "~"
    THEN pathJoin(home, Tail(filePath))
    ELSE filePath

\* ---------------------------------------------------------------- sorting

\* The sequence f with every element evaluated: TLC keeps [i \in 1..n |-> e]
\* as an expression and would evaluate e again at every use.
Array(f) == f \o <<>>

\* Array.prototype.sort((a, b) => key(b) - key(a)), which is stable, keys[i]
\* being the key of s[i]: an element goes after every element with a strictly
\* greater key and after the earlier elements it compares equal to (a NaN
\* difference counts as 0)
SortDesc(s, keys) ==
    LET Equal(i, j) == /\ ~Greater(keys[i], keys[j])
                       /\ ~Greater(keys[j], keys[i])
        pos(i) == Cardinality({j \in 1..Len(s) : Greater(keys[j], keys[i])})
                  + Cardinality({j \in 1..(i - 1) : Equal(i, j)}) + 1
    IN  Array([k \in 1..Len(s) |-> s[CHOOSE i \in 1..Len(s) : pos(i) = k]])

\* ----------------------------------------------------- directory contents

(* What a path holds.  kind is "dir", "file" (a regular file: stat works,     *)
(* readdir does not) or "absent" (nothing there: stat fails).                 *)
(* size is stats.size in bytes, birthtime a day, entries the length of        *)
(* readdirSync's list.  manifest is package.json: state "none" (no file),     *)
(* "bad" (not JSON) or "ok", with dependencies and devDependencies, each a    *)
(* sequence of [name, version] in key order.  files are the files below:      *)
(* [dirs, base, ext, readable, parsable, body]; readable is whether           *)
(* readFileSync succeeds, parsable whether @babel/parser accepts the text,    *)
(* body the statements of the text, one per line:                             *)
(*   require     require('spec')                                              *)
(*   importFrom  import x from 'spec'                                         *)
(*   importBare  import 'spec'                                                *)
(*   exportFrom  export { x } from 'spec'                                     *)
(* A spec is a sequence of segments: <<"p">>, <<"p", "sub">>, <<".", "r">>.   *)
NoManifest == [state |-> "none", dependencies |-> <<>>, devDependencies |-> <<>>]
BadManifest == [state |-> "bad", dependencies |-> <<>>, devDependencies |-> <<>>]

Manifest(deps, dev) == [state |-> "ok", dependencies |-> deps, devDependencies |-> dev]

Node(kind, size, birthtime, entries, manifest, files) ==
    [kind |-> kind, size |-> size, birthtime |-> birthtime, entries |-> entries,
     manifest |-> manifest, files |-> files]

\* fs.existsSync(path.join(dirPath, 'package.json'))
HasManifest(node) == node.kind = "dir" /\ node.manifest.state # "none"

Stmt(kind, spec) == [kind |-> kind, spec |-> spec]

File(dirs, base, ext, readable, parsable, body) ==
    [dirs |-> dirs, base |-> base, ext |-> ext, readable |-> readable,
     parsable |-> parsable, body |-> body]

Dep(name, version) == [name |-> name, version |-> version]

SourceExts == {"js", "jsx", "ts", "tsx"}
IgnoredDirs == {"node_modules", "dist", "build"}

\* a glob whose ignored names count only right below the project directory
globDependenciesRootOnly(node) ==
    LET Keep(f) == /\ f.ext \in SourceExts
                   /\ ~(f.dirs # <<>> /\ f.dirs[1] \in IgnoredDirs)
    IN  IF node.kind = "dir" THEN SelectSeq(node.files, Keep) ELSE <<>>

\* glob.sync('**/*.{js,jsx,ts,tsx}', ignore '**/node_modules/**', '**/dist/**',
\* '**/build/**'): the ignored names count at any depth
globDependencies(node) ==
    LET Keep(f) == /\ f.ext \in SourceExts
                   /\ \A i \in 1..Len(f.dirs) : f.dirs[i] \notin IgnoredDirs
    IN  IF node.kind = "dir" THEN SelectSeq(node.files, Keep) ELSE <<>>

\* the same glob with ignore 'node_modules/**', 'dist/**', 'build/**': the
\* ignored names count only right below the project directory
globImports(node) ==
    LET Keep(f) == /\ f.ext \in SourceExts
                   /\ ~(f.dirs # <<>> /\ f.dirs[1] \in IgnoredDirs)
    IN  IF node.kind = "dir" THEN SelectSeq(node.files, Keep) ELSE <<>>

\* ------------------------------------------------- lib/dependencyAnalyzer.js

\* {...dependencies, ...devDependencies}: a key keeps its first position and
\* takes its last value
allDependencies(manifest) ==
    LET deps == manifest.dependencies
        dev == manifest.devDependencies
        devNames == {dev[i].name : i \in 1..Len(dev)}
        depNames == {deps[i].name : i \in 1..Len(deps)}
        DevVersion(n) == (CHOOSE i \in 1..Len(dev) : dev[i].name = n)
        Merged(d) == IF d.name \in devNames
                     THEN Dep(d.name, dev[DevVersion(d.name)].version)
                     ELSE d
        NotInDeps(d) == d.name \notin depNames
    IN  [i \in 1..Len(deps) |-> Merged(deps[i])] \o SelectSeq(dev, NotInDeps)

\* matches of require\(['"](dep|dep\/.+)['"]\) in one statement
requireCount(stmt, dep) ==
    IF stmt.kind = "require" /\ stmt.spec[1] = dep THEN 1 ELSE 0

\* matches of from\s+['"](dep|dep\/.+)['"] in one statement
importCount(stmt, dep) ==
    IF stmt.kind \in {"importFrom", "exportFrom"} /\ stmt.spec[1] = dep THEN 1 ELSE 0

RECURSIVE matchesInBody(_, _)
matchesInBody(body, dep) ==
    IF body = <<>> THEN 0
    ELSE requireCount(Head(body), dep) + importCount(Head(body), dep)
         + matchesInBody(Tail(body), dep)

RECURSIVE dependencyUsageCount(_, _)
\* dependencyUsage[dep] after files.forEach
dependencyUsageCount(files, dep) ==
    IF files = <<>> THEN 0
    ELSE matchesInBody(Head(files).body, dep) + dependencyUsageCount(Tail(files), dep)

RECURSIVE stripRange(_)
\* version.replace(/[\^~]/g, '')
stripRange(version) ==
    IF version = <<>> THEN <<>>
    ELSE IF Head(version) \in {"^", "~"} THEN stripRange(Tail(version))
    ELSE <<Head(version)>> \o stripRange(Tail(version))

depCountKey(d) == Num(d.count)

\* dependencies.sort((a, b) => b.count - a.count)
sortedDeps(dependencies) ==
    SortDesc(dependencies,
             Array([i \in 1..Len(dependencies) |-> depCountKey(dependencies[i])]))

\* the list analyzeDependencies returns: [name, version, count], by count
\* descending; [] when there is no package.json and when anything throws
analyzeDependencies(node) ==
    IF ~HasManifest(node) THEN <<>>
    ELSE IF node.manifest.state = "bad" THEN <<>>
    ELSE LET all == allDependencies(node.manifest)
             files == globDependencies(node)
             Used(d) == d.count > 0
             counted == Array([i \in 1..Len(all) |->
                            [name |-> all[i].name,
                             version |-> stripRange(all[i].version),
                             count |-> dependencyUsageCount(files, all[i].name)]])
         IN  IF \E i \in 1..Len(files) : ~files[i].readable THEN <<>>
             ELSE sortedDeps(SelectSeq(counted, Used))

\* --------------------------------------------------- lib/importAnalyzer.js

entryPoints == {"index", "main", "server", "app"}

IsEntryPoint(f) == f.dirs = <<>> /\ f.ext = "js" /\ f.base \in entryPoints

\* the ImportDeclaration nodes of a file with a non-relative source, in order;
\* none when the parser rejects the file
importDeclarations(f) ==
    LET IsImport(st) == /\ st.kind \in {"importFrom", "importBare"}
                        /\ st.spec[1] \notin {".", ".."}
    IN  IF f.parsable THEN SelectSeq(f.body, IsImport) ELSE <<>>

RECURSIVE importsOfFiles(_)
\* every counted import as [spec, file], in scan order
importsOfFiles(files) ==
    IF files = <<>> THEN <<>>
    ELSE LET f == Head(files)
             ds == importDeclarations(f)
         IN  [i \in 1..Len(ds) |-> [spec |-> ds[i].spec, file |-> f]]
             \o importsOfFiles(Tail(files))

\* what one counted ImportDeclaration does to importMap
recordImport(importMap, packageName, file) ==
    LET old == IF packageName \in DOMAIN importMap
               THEN importMap[packageName]
               ELSE [count |-> 0, files |-> <<>>, isInEntryPoint |-> FALSE]
        new == [count |-> old.count + 1,
                files |-> Append(old.files, file.dirs \o <<file.base, file.ext>>),
                isInEntryPoint |-> old.isInEntryPoint \/ IsEntryPoint(file)]
    IN  (packageName :> new) @@ importMap

RECURSIVE recordImports(_, _)
recordImports(importMap, found) ==
    IF found = <<>> THEN importMap
    ELSE recordImports(recordImport(importMap, Head(found).spec, Head(found).file),
                       Tail(found))

\* analyzeImports: throws when a scanned file cannot be read, and otherwise
\* returns the object importMap, package -> [count, files, isInEntryPoint]
analyzeImports(node) ==
    LET files == globImports(node)
    IN  IF \E i \in 1..Len(files) : ~files[i].readable
        THEN [threw |-> TRUE, value |-> Obj(<<>>)]
        ELSE [threw |-> FALSE, value |-> Obj(recordImports(<<>>, importsOfFiles(files)))]

\* ------------------------------------------------------------- filesystem

\* The paths that can hold something: the root, the working directory, the
\* home directory (these three always exist) and one path below each of the
\* last two, which the user creates, replaces and removes.
Root == <<"/">>
CwdA == Cwd \o <<"/", "a">>
HomeA == HomeDir \o <<"/", "a">>

FixedDirs == {Root, Cwd, HomeDir}
VarDirs == {CwdA, HomeA}
Dirs == FixedDirs \cup VarDirs

MB == 1024 * 1024

\* what can be put at a path of VarDirs
Catalogue == {"app", "lib", "vendored", "badjson", "plainfile"}

Absent == Node("absent", 0, 0, 0, NoManifest, <<>>)

\* the content itself of a catalogue name, and of the three fixed directories
Content(name) ==
    CASE name = "absent" -> Absent
      [] name = "plainfile" -> Node("file", 120, 1000, 0, NoManifest, <<>>)
      [] name = "app" ->
            Node("dir", 2 * MB + 4096, 1045, 35,
                 Manifest(<<Dep("p", <<"^", "1">>), Dep("q", <<"~", "2">>)>>,
                          <<Dep("q", <<"^", "3">>), Dep("r", <<"1">>)>>),
                 <<File(<<>>, "index", "js", TRUE, TRUE,
                        <<Stmt("importFrom", <<"p">>), Stmt("require", <<"q">>),
                          Stmt("importFrom", <<".", "x">>), Stmt("importBare", <<"s">>)>>),
                   File(<<"src">>, "u", "ts", TRUE, TRUE,
                        <<Stmt("importFrom", <<"p", "sub">>), Stmt("exportFrom", <<"q">>),
                          Stmt("require", <<"q">>)>>),
                   File(<<"node_modules", "p">>, "index", "js", TRUE, TRUE,
                        <<Stmt("require", <<"q">>), Stmt("importFrom", <<"q">>)>>),
                   File(<<>>, "README", "md", TRUE, FALSE, <<>>)>>)
      [] name = "lib" ->
            Node("dir", 40 * MB, 0, 3,
                 Manifest(<<Dep("p", <<"~", "2">>)>>, <<>>),
                 <<File(<<"lib">>, "main", "js", TRUE, TRUE,
                        <<Stmt("require", <<"p">>)>>),
                   File(<<"src", "node_modules">>, "x", "js", TRUE, TRUE,
                        <<Stmt("importFrom", <<"p">>)>>)>>)
      [] name = "vendored" ->
            Node("dir", 4096, 1000, 2,
                 Manifest(<<Dep("p", <<"1">>)>>, <<>>),
                 <<File(<<>>, "main", "js", TRUE, TRUE,
                        <<Stmt("importFrom", <<"p">>)>>),
                   File(<<"pkg", "node_modules">>, "chart", "js", FALSE, FALSE, <<>>)>>)
      [] name = "badjson" ->
            Node("dir", 4096, 1000, 3, BadManifest,
                 <<File(<<>>, "index", "js", TRUE, FALSE,
                        <<Stmt("importFrom", <<"p">>)>>),
                   File(<<>>, "ok", "js", TRUE, TRUE,
                        <<Stmt("importFrom", <<".", "index">>)>>)>>)
      [] name = "root" -> Node("dir", 4096, 0, 0, NoManifest, <<>>)
      [] name = "cwd" ->
            Node("dir", 4096, 1000, 2,
                 Manifest(<<Dep("q", <<"^", "2">>)>>, <<>>),
                 <<File(<<>>, "main", "js", TRUE, TRUE,
                        <<Stmt("require", <<"q", "lib">>)>>)>>)
      [] name = "home" ->
            Node("dir", 4096, 985, 1, NoManifest,
                 <<File(<<>>, "notes", "txt", TRUE, FALSE, <<>>)>>)

\* the directories right below a path, with their names there
Children(p) ==
    CASE p = Root -> {[path |-> Cwd, name |-> "c"], [path |-> HomeDir, name |-> "h"]}
      [] p = Cwd -> {[path |-> CwdA, name |-> "a"]}
      [] p = HomeDir -> {[path |-> HomeA, name |-> "a"]}
      [] OTHER -> {}

RECURSIVE FilesBelow(_, _)
\* the files of the tree at p, paths relative to p: its own and, below each
\* child directory that exists, that child's
FilesBelow(fs, p) ==
    LET own == Content(fs[p])
        kids == {c \in Children(p) : Content(fs[c.path]).kind = "dir"}
        Under(c) == LET fl == FilesBelow(fs, c.path)
                    IN  Array([i \in 1..Len(fl) |-> [fl[i] EXCEPT !.dirs = <<c.name>> \o @]])
        RECURSIVE All(_)
        All(cs) == IF cs = {} THEN <<>>
                   ELSE LET c == CHOOSE x \in cs : TRUE
                        IN  Under(c) \o All(cs \ {c})
    IN  own.files \o All(kids)

\* what the program finds at path p: Absent for a path that holds nothing
NodeAt(fs, p) ==
    IF p \notin Dirs THEN Absent
    ELSE LET own == Content(fs[p])
             present == {c \in Children(p) : Content(fs[c.path]).kind # "absent"}
         IN  IF own.kind # "dir" THEN own
             ELSE [own EXCEPT !.entries = @ + Cardinality(present),
                              !.files = FilesBelow(fs, p)]

\* an existence test that answers yes to everything
existsSyncAlways(fs, p) == TRUE

\* fs.existsSync(p): the filesystem resolves p itself
existsSync(fs, p) ==
    LET q == pathResolve(p)
    IN  q \in Dirs /\ Content(fs[q]).kind # "absent"

\* ------------------------------------------------ index.js: analyzeDirectory

\* dirSize.toFixed(2), in hundredths of a megabyte
toFixed2(size) == (size \div MB) * 100 + ((size % MB) * 100 + MB \div 2) \div MB

fileCountPoints(node) == MathMin(Num(node.entries), Num(30))

sizePoints(node) == MathMin(Num(node.size \div MB), Num(30))

\* ageInDays = (Date.now() - stats.birthtime) / (1000 * 60 * 60 * 24)
agePoints(node, now) == MathMax(Num(30 - ((now - node.birthtime) \div 30)), Num(0))

dependencyPoints(dependencyScore) == MathMin(Num(Len(dependencyScore) * 3), Num(15))

importPoints(importScore) == MathMin(importScore, Num(15))

\* a catch that hands back the points reached before the throw
ErrorResultKeepsBase(dirPath, message) ==
    [path |-> dirPath, error |-> message, score |-> Num(10)]

ErrorResult(dirPath, message) ==
    [path |-> dirPath, error |-> message, score |-> Num(0)]

\* the try of analyzeDirectory from the two analyzers' returns on: a throw of
\* analyzeImports goes to the catch, and else the score is summed
scoreDirectory(dirPath, node, now, dependencyScore, imports) ==
    IF imports.threw THEN ErrorResult(dirPath, "Error analyzing imports")
    ELSE [path |-> dirPath,
          fileCount |-> node.entries,
          size |-> toFixed2(node.size),
          dependencyScore |-> dependencyScore,
          importScore |-> imports.value,
          score |-> MathMin(Plus(Plus(Plus(Plus(Plus(Num(10), fileCountPoints(node)),
                                                sizePoints(node)),
                                           agePoints(node, now)),
                                      dependencyPoints(dependencyScore)),
                                 importPoints(imports.value)),
                            Num(100))]

\* the record analyzeDirectory returns; its catch turns every throw of the
\* body (statSync, readdirSync, analyzeImports) into the error record
analyzeDirectory(dirPath, node, now) ==
    IF node.kind = "absent" THEN ErrorResult(dirPath, "ENOENT")
    ELSE IF node.kind # "dir" THEN ErrorResult(dirPath, "ENOTDIR")
    ELSE scoreDirectory(dirPath, node, now, analyzeDependencies(node),
                        analyzeImports(node))

\* ------------------------------------------------------- index.js: the CLI

VARIABLES
    configFile,          \* data/directories.json: [exists, directories]
    fsys,                \* Dirs -> the name of what the path holds
    pc,                  \* "none" (no process), "asking", "exited", "crashed"
    variant,             \* which copy's analyze ran (1 or 2); the copies agree elsewhere
    command,             \* process.argv[2]
    home,                \* process.env.HOME || process.env.USERPROFILE
    now,                 \* Date.now(), a day
    typed,               \* the answer given at the prompt
    out,                 \* what console.log printed
    rlClosed,            \* calls of rl.close()
    results,             \* what analyzeDirectory returned, as the command holds it
    dependencyUsage,     \* the Map of the second analyze: entries in key order
    totalImportScore,
    rankedDependencies,
    called,              \* the library function under call: "none" before the CLI runs
    project,             \* the directory handed to analyzeDependencies
    returned,            \* what analyzeDependencies returned
    depData,             \* the arguments of calculateScore
    importData,
    ranking,             \* what calculateScore returned
    thrown               \* the message of what calculateScore threw

callVars == <<called, project, returned, depData, importData, ranking, thrown>>

procVars == <<variant, command, home, now, typed, out, rlClosed, results,
              dependencyUsage, totalImportScore, rankedDependencies>>

vars == <<configFile, fsys, pc, procVars, callVars>>

Clock == {1000, 2000}
Alphabet == {"~", "/", ".", "a"}

RECURSIVE Texts(_)
\* the texts of at most n characters
Texts(n) ==
    IF n = 0 THEN {<<>>}
    ELSE LET shorter == Texts(n - 1)
         IN  shorter \cup {Append(t, c) : t \in {x \in shorter : Len(x) = n - 1},
                                          c \in Alphabet}

\* "Ensure config file exists", run when the program starts
Startup(cf) == IF cf.exists THEN cf ELSE [exists |-> TRUE, directories |-> <<>>]

getStoredDirectories(cf) == cf.directories

includes(list, x) == \E i \in 1..Len(list) : list[i] = x

\* a save that puts the new path first (unshift for push)
saveDirectoryUnshift(cf, dirPath) ==
    IF ~includes(cf.directories, dirPath)
    THEN [cf EXCEPT !.directories = <<dirPath>> \o @]
    ELSE cf

\* a save without the includes test
saveDirectoryAlways(cf, dirPath) ==
    [cf EXCEPT !.directories = Append(@, dirPath)]

saveDirectory(cf, dirPath) ==
    IF ~includes(cf.directories, dirPath)
    THEN [cf EXCEPT !.directories = Append(@, dirPath)]
    ELSE cf

Line(tag, path) == [tag |-> tag, path |-> path]

\* case 'list'
RunList ==
    /\ pc = "none"
    /\ configFile' = Startup(configFile)
    /\ LET dirs == getStoredDirectories(Startup(configFile))
       IN  out' = Array([i \in 1..Len(dirs) |-> Line("stored", dirs[i])])
    /\ rlClosed' = rlClosed + 1
    /\ pc' = "exited"
    /\ command' = "list"
    /\ UNCHANGED <<callVars, fsys, variant, home, now, typed, results, dependencyUsage,
                   totalImportScore, rankedDependencies>>

\* default: an unknown command
RunUnknown ==
    /\ pc = "none"
    /\ configFile' = Startup(configFile)
    /\ out' = <<Line("unknown", <<>>)>>
    /\ rlClosed' = rlClosed + 1
    /\ pc' = "exited"
    /\ command' = "other"
    /\ UNCHANGED <<callVars, fsys, variant, home, now, typed, results, dependencyUsage,
                   totalImportScore, rankedDependencies>>

\* case undefined: the prompt is printed and the callback registered
RunAdd(h) ==
    /\ pc = "none"
    /\ Len(configFile.directories) < MaxStored
    /\ configFile' = Startup(configFile)
    /\ out' = <<Line("welcome", <<>>)>>
    /\ pc' = "asking"
    /\ command' = "undefined"
    /\ home' = h
    /\ UNCHANGED <<callVars, fsys, variant, now, typed, rlClosed, results, dependencyUsage,
                   totalImportScore, rankedDependencies>>

\* the callback of rl.question, called with the line the user typed
Answer(dirPath) ==
    /\ pc = "asking"
    /\ typed' = dirPath
    /\ LET expandedPath == expandTilde(dirPath, home)
           absolutePath == pathResolve(expandedPath)
       IN  IF expandedPath = TypeError
           THEN /\ pc' = "crashed"
                /\ UNCHANGED <<configFile, out, rlClosed>>
           ELSE /\ IF existsSync(fsys, absolutePath)
                   THEN /\ configFile' = saveDirectory(configFile, absolutePath)
                        /\ out' = Append(out, Line("saved", absolutePath))
                   ELSE /\ configFile' = configFile
                        /\ out' = Append(out, Line("notExist", <<>>))
                /\ rlClosed' = rlClosed + 1
                /\ pc' = "exited"
    /\ UNCHANGED <<callVars, fsys, variant, command, home, now, results, dependencyUsage,
                   totalImportScore, rankedDependencies>>

scoreKey(r) == r.score

IsError(result) == "error" \in DOMAIN result

\* what the first analyze prints for one result
resultLines(result) ==
    IF IsError(result)
    THEN <<[tag |-> "score", path |-> result.path, value |-> Num(0)]>>
    ELSE <<[tag |-> "importScore", path |-> result.path, value |-> result.importScore],
           [tag |-> "score", path |-> result.path, value |-> result.score]>>

RECURSIVE Flatten(_)
Flatten(ss) == IF ss = <<>> THEN <<>> ELSE Head(ss) \o Flatten(Tail(ss))

\* storedDirs.directories.map(analyzeDirectory)
mapResults(dirs, fs, t) ==
    Array([i \in 1..Len(dirs) |-> analyzeDirectory(dirs[i], NodeAt(fs, dirs[i]), t)])

\* results.sort((a, b) => b.score - a.score)
sortedResults(mapped) ==
    SortDesc(mapped, Array([i \in 1..Len(mapped) |-> scoreKey(mapped[i])]))

\* case 'analyze' of the first copy
RunAnalyze1(t) ==
    /\ pc = "none"
    /\ configFile' = Startup(configFile)
    /\ \E sorted \in {sortedResults(mapResults(getStoredDirectories(Startup(configFile)),
                                                 fsys, t))} :
           /\ results' = sorted
           /\ out' = Flatten([i \in 1..Len(sorted) |-> resultLines(sorted[i])])
    /\ rlClosed' = rlClosed + 1
    /\ pc' = "exited"
    /\ variant' = 1
    /\ command' = "analyze"
    /\ now' = t
    /\ UNCHANGED <<callVars, fsys, home, typed, dependencyUsage, totalImportScore,
                   rankedDependencies>>

\* a tally that keeps the last directory's count instead of adding it
trackDependencyOverwrite(usage, dep, dirPath) ==
    LET has == \E i \in 1..Len(usage) : usage[i].name = dep.name
        set == IF has THEN usage
               ELSE Append(usage, [name |-> dep.name, count |-> 0,
                                   versions |-> {}, dirs |-> {}])
        at == CHOOSE i \in 1..Len(set) : set[i].name = dep.name
    IN  [set EXCEPT ![at] = [name |-> @.name,
                             count |-> dep.count,
                             versions |-> @.versions \cup {dep.version},
                             dirs |-> @.dirs \cup {dirPath}]]

\* "Track detailed dependency usage" for one dependency of one directory
trackDependency(usage, dep, dirPath) ==
    LET has == \E i \in 1..Len(usage) : usage[i].name = dep.name
        set == IF has THEN usage
               ELSE Append(usage, [name |-> dep.name, count |-> 0,
                                   versions |-> {}, dirs |-> {}])
        at == CHOOSE i \in 1..Len(set) : set[i].name = dep.name
    IN  [set EXCEPT ![at] = [name |-> @.name,
                             count |-> @.count + dep.count,
                             versions |-> @.versions \cup {dep.version},
                             dirs |-> @.dirs \cup {dirPath}]]

RECURSIVE trackAll(_, _, _)
\* dependencies.forEach
trackAll(usage, dependencies, dirPath) ==
    IF dependencies = <<>> THEN usage
    ELSE trackAll(trackDependency(usage, Head(dependencies), dirPath),
                  Tail(dependencies), dirPath)

\* the body of storedDirs.directories.forEach for one directory, given what
\* the three calls it makes give; st.threw is set when analyzeImports throws,
\* which nothing there catches, and then analyzeDirectory is not reached
analyzeOne(st, dirPath, dependencies, imports, analysis) ==
    LET usage == trackAll(st.dependencyUsage, dependencies, dirPath)
        out1 == Append(st.out, Line("analyzing", dirPath))
        positive == Greater(imports.value, Num(0))
    IN  IF imports.threw
        THEN [st EXCEPT !.dependencyUsage = usage, !.out = out1, !.threw = TRUE]
        ELSE [dependencyUsage |-> usage,
              totalImportScore |-> IF positive
                                   THEN Plus(st.totalImportScore, imports.value)
                                   ELSE st.totalImportScore,
              out |-> out1
                      \o <<IF positive
                           THEN [tag |-> "importAnalysisScore", path |-> dirPath,
                                 value |-> imports.value]
                           ELSE Line("noImports", dirPath),
                           [tag |-> "overall", path |-> dirPath, value |-> analysis.score]>>,
              results |-> Append(st.results, analysis),
              threw |-> FALSE]

\* the calls of the body on what the disk holds at dirPath
analyzeNode(st, dirPath, node, t) ==
    analyzeOne(st, dirPath, analyzeDependencies(node), analyzeImports(node),
               analyzeDirectory(dirPath, node, t))

RECURSIVE forEachDirectory(_, _, _, _)
forEachDirectory(st, dirs, fs, t) ==
    IF dirs = <<>> \/ st.threw THEN st
    ELSE forEachDirectory(analyzeNode(st, Head(dirs), NodeAt(fs, Head(dirs)), t),
                          Tail(dirs), fs, t)

usageKey(u) == Num(u.count)

\* [...dependencyUsage.entries()].sort((a, b) => b[1].count - a[1].count)
rankedByCount(usage) ==
    SortDesc(usage, Array([i \in 1..Len(usage) |-> usageKey(usage[i])]))

\* the state of the forEach before its first directory
forEachStart ==
    [dependencyUsage |-> <<>>, totalImportScore |-> Num(0), out |-> <<>>,
     results |-> <<>>, threw |-> FALSE]

\* (totalImportScore / length).toFixed(2), in hundredths; 0 / 0 is NaN
averageImportScore(total, length) ==
    IF IsNum(total) /\ length > 0 THEN Num((total.v * 100) \div length) ELSE NaN

\* case 'analyze' of the second copy
RunAnalyze2(t) ==
    /\ pc = "none"
    /\ configFile' = Startup(configFile)
    /\ \E end \in {forEachDirectory(forEachStart,
                                    getStoredDirectories(Startup(configFile)), fsys, t)} :
       \E ranked \in {rankedByCount(end.dependencyUsage)} :
           /\ results' = end.results
           /\ dependencyUsage' = end.dependencyUsage
           /\ totalImportScore' = end.totalImportScore
           /\ IF end.threw
              THEN /\ pc' = "crashed"
                   /\ out' = end.out
                   /\ UNCHANGED <<rlClosed, rankedDependencies>>
              ELSE /\ pc' = "exited"
                   /\ rankedDependencies' = ranked
                   /\ out' = end.out
                        \o [i \in 1..Len(ranked) |->
                               [tag |-> "rank", path |-> <<>>, name |-> ranked[i].name,
                                value |-> Num(ranked[i].count)]]
                        \o <<[tag |-> "summary", path |-> <<>>,
                              total |-> Len(end.dependencyUsage),
                              value |-> averageImportScore(
                                            end.totalImportScore,
                                            Len(getStoredDirectories(Startup(configFile))))]>>
                   /\ rlClosed' = rlClosed + 1
    /\ variant' = 2
    /\ command' = "analyze"
    /\ now' = t
    /\ UNCHANGED <<callVars, fsys, home, typed>>

\* the process is gone, and its memory with it
Exit ==
    /\ pc \in {"exited", "crashed"}
    /\ pc' = "none"
    /\ variant' = 0
    /\ command' = ""
    /\ home' = Undefined
    /\ now' = 0
    /\ typed' = Undefined
    /\ out' = <<>>
    /\ rlClosed' = 0
    /\ results' = <<>>
    /\ dependencyUsage' = <<>>
    /\ totalImportScore' = Num(0)
    /\ rankedDependencies' = <<>>
    /\ UNCHANGED <<callVars, configFile, fsys>>

\* the user creates, replaces or removes what a path holds
SetDir(p, c) ==
    /\ pc \in {"none", "asking"}
    /\ fsys[p] # c
    /\ fsys' = [fsys EXCEPT ![p] = c]
    /\ UNCHANGED <<callVars, configFile, pc, procVars>>

\* no library function is under call
NoCall ==
    /\ called = "none"
    /\ project = Absent
    /\ returned = <<>>
    /\ depData = <<>>
    /\ importData = <<>>
    /\ ranking = <<>>
    /\ thrown = ""

\* the program before its first run: no config file, the fixed directories
InitCli ==
    /\ configFile = [exists |-> FALSE, directories |-> <<>>]
    /\ fsys = [p \in Dirs |-> CASE p = Root -> "root"
                                [] p = Cwd -> "cwd"
                                [] p = HomeDir -> "home"
                                [] OTHER -> "absent"]
    /\ pc = "none"
    /\ variant = 0
    /\ command = ""
    /\ home = Undefined
    /\ now = 0
    /\ typed = Undefined
    /\ out = <<>>
    /\ rlClosed = 0
    /\ results = <<>>
    /\ dependencyUsage = <<>>
    /\ totalImportScore = Num(0)
    /\ rankedDependencies = <<>>

Init == InitCli /\ NoCall

\* the texts typed in Spec: one for each path of Dirs, and two more ways to
\* name the working directory's child
Typed == {<<>>, <<"~">>, <<"/">>, <<"a">>, <<"a", "/">>, <<"~", "a">>, <<"~", "/", "a">>}

Next ==
    \/ RunList
    \/ RunUnknown
    \/ RunAdd(HomeDir)
    \/ \E dirPath \in Typed : Answer(dirPath)
    \/ \E t \in Clock : RunAnalyze1(t)
    \/ \E t \in Clock : RunAnalyze2(t)
    \/ Exit
    \/ \E p \in VarDirs, c \in Catalogue \cup {"absent"} : SetDir(p, c)

Spec == Init /\ [][Next]_vars

\* The prompt under every short text and with HOME set or not; what the
\* directories hold plays no part there, so they hold the same thing or nothing.
NextPrompt ==
    \/ RunList
    \/ \E h \in {HomeDir, Undefined} : RunAdd(h)
    \/ \E dirPath \in Texts(MaxLen) : Answer(dirPath)
    \/ Exit
    \/ \E p \in VarDirs, c \in {"plainfile", "absent"} : SetDir(p, c)

SpecPrompt == Init /\ [][NextPrompt]_vars

\* ---------------------------------------------------- lib/scoreCalculator.js

weights ==
    [directDependency |-> 30, dependencyUsage |-> 20, importCount |-> 25,
     entryPointBonus |-> 25]

\* a score is held in tenths, so that the divisions by 10 and by 5 are exact
Tenths(n) == n * 10

\* Math.round of a number of tenths: the nearest integer, a half going up
MathRound(t) == (t + 5) \div 10

\* scores[pkg] = amount, whatever was there
addScoreOverwrite(scores, pkg, amount) ==
    IF \E i \in 1..Len(scores) : scores[i].package = pkg
    THEN LET at == CHOOSE i \in 1..Len(scores) : scores[i].package = pkg
         IN  [scores EXCEPT ![at].score = amount]
    ELSE Append(scores, [package |-> pkg, score |-> amount])

\* scores[pkg] = scores[pkg] || 0; scores[pkg] += amount: a new key goes last
addScore(scores, pkg, amount) ==
    IF \E i \in 1..Len(scores) : scores[i].package = pkg
    THEN LET at == CHOOSE i \in 1..Len(scores) : scores[i].package = pkg
         IN  [scores EXCEPT ![at].score = @ + amount]
    ELSE Append(scores, [package |-> pkg, score |-> amount])

RECURSIVE scoreDepData(_, _)
\* depData.forEach(([pkg, count]) => ...)
scoreDepData(scores, items) ==
    IF items = <<>> THEN scores
    ELSE scoreDepData(addScore(scores, Head(items)[1],
                               (Tenths(Head(items)[2]) * weights.dependencyUsage) \div 10),
                      Tail(items))

RECURSIVE scoreDirectDeps(_, _)
\* importData.directDeps.forEach(dep => ...)
scoreDirectDeps(scores, deps) ==
    IF deps = <<>> THEN scores
    ELSE scoreDirectDeps(addScore(scores, Head(deps), Tenths(weights.directDependency)),
                         Tail(deps))

RECURSIVE scoreImportAnalysis(_, _)
\* importData.importAnalysis.forEach(({ package, usageCount, isInEntryPoint }) => ...)
scoreImportAnalysis(scores, items) ==
    IF items = <<>> THEN scores
    ELSE LET i == Head(items)
             used == addScore(scores, i.package,
                              (Tenths(i.usageCount) * weights.importCount) \div 5)
             bonus == IF i.isInEntryPoint
                      THEN addScore(used, i.package, Tenths(weights.entryPointBonus))
                      ELSE used
         IN  scoreImportAnalysis(bonus, Tail(items))

IsArray(x) == x.kind = "array"

\* null as an element of depData, where the elements are pairs: the
\* parameter pattern [pkg, count] cannot take it apart
Null == <<"null">>

\* null as an element of importAnalysis, where the elements are objects:
\* the parameter pattern { package, usageCount, isInEntryPoint } cannot
\* take it apart
NullObject == [type |-> "null"]

IsNullObject(x) == DOMAIN x = {"type"}

\* Array.prototype.find, given the elements that pass its test in their
\* order: the first of them; <<>> stands for undefined
find(hits) == IF hits = <<>> THEN <<>> ELSE <<hits[1]>>

rankKey(e) == Num(e.score)

\* .sort((a, b) => b.score - a.score)
sortedScores(entries) ==
    SortDesc(entries, Array([k \in 1..Len(entries) |-> rankKey(entries[k])]))

\* calculateScore: what it throws, or the ranking it returns
calculateScore(dep, imp) ==
    IF ~IsArray(dep) THEN [threw |-> TRUE, message |-> "depData must be an array"]
    ELSE IF imp.kind # "object"
    THEN [threw |-> TRUE, message |-> "importData must be an object"]
    ELSE IF ~IsArray(imp.directDeps)
    THEN [threw |-> TRUE, message |-> "importData.directDeps must be an array"]
    ELSE IF ~IsArray(imp.importAnalysis)
    THEN [threw |-> TRUE, message |-> "importData.importAnalysis must be an array"]
    ELSE IF \E i \in 1..Len(dep.items) : dep.items[i] = Null
    THEN [threw |-> TRUE, message |-> "TypeError: null is not iterable"]
    ELSE IF \E i \in 1..Len(imp.importAnalysis.items) :
                IsNullObject(imp.importAnalysis.items[i])
    THEN [threw |-> TRUE, message |-> "TypeError: Cannot destructure property of null"]
    ELSE LET scores == scoreImportAnalysis(
                           scoreDirectDeps(scoreDepData(<<>>, dep.items),
                                           imp.directDeps.items),
                           imp.importAnalysis.items)
             Entry(e) ==
                 LET Named(i) == i.package = e.package
                     Pair(d) == d[1] = e.package
                     found == find(SelectSeq(imp.importAnalysis.items, Named))
                     pair == find(SelectSeq(dep.items, Pair))
                 IN  [package |-> e.package,
                      score |-> MathRound(e.score),
                      details |->
                         [isDirect |-> includes(imp.directDeps.items, e.package),
                          importCount |-> IF found = <<>> THEN 0 ELSE found[1].usageCount,
                          isInEntryPoint |-> found # <<>> /\ found[1].isInEntryPoint,
                          dependencyCount |-> IF pair = <<>> THEN 0 ELSE pair[1][2]]]
         IN  [threw |-> FALSE,
              value |-> sortedScores(Array([k \in 1..Len(scores) |-> Entry(scores[k])]))]

\* ------------------------------------------------- the library calls, alone

MaxFiles == 3
MaxDepData == 2
MaxDirect == 2
MaxImports == 1

RECURSIVE SeqsUpTo(_, _)
\* the sequences over S of length n at most
SeqsUpTo(S, n) ==
    IF n = 0 THEN {<<>>}
    ELSE LET shorter == SeqsUpTo(S, n - 1)
         IN  shorter \cup {Append(t, x) : t \in {y \in shorter : Len(y) = n - 1}, x \in S}

\* the files a project may hold, in the order glob lists them
FileShelf ==
    <<File(<<>>, "index", "js", TRUE, TRUE,
           <<Stmt("require", <<"p">>), Stmt("importFrom", <<"p", "sub">>),
             Stmt("importFrom", <<".", "p">>), Stmt("importBare", <<"q">>)>>),
      File(<<"src">>, "u", "ts", TRUE, TRUE,
           <<Stmt("exportFrom", <<"q">>), Stmt("require", <<"s">>)>>),
      File(<<"src", "node_modules">>, "x", "js", TRUE, TRUE,
           <<Stmt("require", <<"r">>)>>),
      File(<<>>, "gen", "jsx", FALSE, FALSE, <<>>),
      File(<<"dist">>, "b", "js", FALSE, FALSE, <<>>),
      File(<<>>, "README", "md", TRUE, FALSE, <<Stmt("require", <<"r">>)>>)>>

Manifests ==
    {NoManifest, BadManifest,
     Manifest(<<Dep("p", <<"^", "1">>), Dep("q", <<"~", "2">>)>>, <<>>),
     Manifest(<<Dep("p", <<"1">>)>>, <<Dep("q", <<"2">>), Dep("r", <<"^", "3">>)>>),
     Manifest(<<Dep("q", <<"1">>)>>, <<Dep("q", <<"~", "3">>), Dep("p", <<"1">>)>>)}

\* the projects analyzeDependencies is called on: a missing directory, and
\* every manifest with every choice of MaxFiles files at most
Projects ==
    {Absent} \cup
    {Node("dir", 4096, 1000, Cardinality(pick),
          m, SelectSeq(FileShelf, LAMBDA f : f \in {FileShelf[i] : i \in pick})) :
        m \in Manifests,
        pick \in {S \in SUBSET (1..Len(FileShelf)) : Cardinality(S) <= MaxFiles}}

InitDeps ==
    /\ InitCli
    /\ called = "analyzeDependencies"
    /\ project \in Projects
    /\ returned = <<>>
    /\ depData = <<>>
    /\ importData = <<>>
    /\ ranking = <<>>
    /\ thrown = ""

\* dependencyAnalyzer.analyzeDependencies(dirPath) runs and returns
CallAnalyzeDependencies ==
    /\ called = "analyzeDependencies"
    /\ returned' = analyzeDependencies(project)
    /\ called' = "returned"
    /\ UNCHANGED <<configFile, fsys, pc, procVars, project, depData, importData, ranking,
                   thrown>>

NextDeps == CallAnalyzeDependencies

SpecDeps == InitDeps /\ [][NextDeps]_vars

ArrayOf(items) == [kind |-> "array", items |-> items]

NotArray == [kind |-> "other"]

DepDataItems == {<<pkg, count>> : pkg \in {"a", "b"}, count \in {1, 4}}

ImportItems ==
    {[package |-> pkg, usageCount |-> n, isInEntryPoint |-> e] :
        pkg \in {"a", "c"}, n \in {1, 3}, e \in BOOLEAN}

\* the arguments calculateScore is called with: every pair of arrays of
\* pairs and of objects within the bounds, one of each kind the validation
\* rejects, and arrays that hold a null
DepDatas ==
    {ArrayOf(s) : s \in SeqsUpTo(DepDataItems, MaxDepData)}
    \cup {NotArray, ArrayOf(<<Null>>), ArrayOf(<<<<"a", 1>>, Null>>)}

ImportDatas ==
    {[kind |-> "object", directDeps |-> ArrayOf(d), importAnalysis |-> ArrayOf(i)] :
        d \in SeqsUpTo({"a", "b"}, MaxDirect), i \in SeqsUpTo(ImportItems, MaxImports)}
    \cup {[kind |-> "other"],
          [kind |-> "object", directDeps |-> NotArray, importAnalysis |-> ArrayOf(<<>>)],
          [kind |-> "object", directDeps |-> ArrayOf(<<>>), importAnalysis |-> NotArray],
          [kind |-> "object", directDeps |-> ArrayOf(<<"a">>),
           importAnalysis |-> ArrayOf(<<NullObject>>)]}

InitScore ==
    /\ InitCli
    /\ called = "calculateScore"
    /\ project = Absent
    /\ returned = <<>>
    /\ depData \in DepDatas
    /\ importData \in ImportDatas
    /\ ranking = <<>>
    /\ thrown = ""

\* calculateScore(depData, importData) returns
CallCalculateScore ==
    /\ called = "calculateScore"
    /\ ~calculateScore(depData, importData).threw
    /\ ranking' = calculateScore(depData, importData).value
    /\ called' = "scored"
    /\ UNCHANGED <<configFile, fsys, pc, procVars, project, returned, depData, importData,
                   thrown>>

\* calculateScore(depData, importData) throws
ThrowCalculateScore ==
    /\ called = "calculateScore"
    /\ calculateScore(depData, importData).threw
    /\ called' = "threw"
    /\ thrown' = calculateScore(depData, importData).message
    /\ UNCHANGED <<configFile, fsys, pc, procVars, project, returned, depData, importData,
                   ranking>>

NextScore == CallCalculateScore \/ ThrowCalculateScore

SpecScore == InitScore /\ [][NextScore]_vars

\* ------------------------------------------------------------------ claims

Stored == configFile.directories

Analyzed == command = "analyze" /\ pc \in {"exited", "crashed"}

Paths(rs) == {rs[i].path : i \in 1..Len(rs)}

\* C1: an analyze invocation, of either copy, is never ended by an error in
\* one stored directory: it reaches its end (rl.close called) with a result
\* for every stored directory.
C1_AnalyzeNeverFatal ==
    Analyzed =>
        /\ pc = "exited"
        /\ rlClosed = 1
        /\ Len(results) = Len(Stored)
        /\ Paths(results) = {Stored[i] : i \in 1..Len(Stored)}

\* what can fail below analyzeDirectory, told from the directory alone
StatFails(node) == node.kind = "absent"
ReaddirFails(node) == node.kind = "file"
DependencyAnalysisFails(node) ==
    /\ HasManifest(node)
    /\ \/ node.manifest.state = "bad"
       \/ \E i \in 1..Len(node.files) :
             LET f == node.files[i]
             IN  /\ f.ext \in SourceExts
                 /\ \A k \in 1..Len(f.dirs) : f.dirs[k] \notin IgnoredDirs
                 /\ ~f.readable
ImportAnalysisFails(node) ==
    /\ node.kind = "dir"
    /\ \E i \in 1..Len(node.files) :
          LET f == node.files[i]
          IN  /\ f.ext \in SourceExts
              /\ ~(f.dirs # <<>> /\ f.dirs[1] \in IgnoredDirs)
              /\ ~f.readable

IsErrorRecord(r, dirPath) ==
    /\ DOMAIN r = {"path", "error", "score"}
    /\ r.path = dirPath
    /\ r.score = Num(0)

IsSuccessRecord(r, dirPath) ==
    /\ DOMAIN r = {"path", "fileCount", "size", "dependencyScore", "importScore", "score"}
    /\ r.path = dirPath

ScoreLines == {i \in 1..Len(out) : out[i].tag \in {"score", "overall"}}

\* C3: every score analyzeDirectory returns, and every score printed as
\* <score>/100, is a number from 0 to 100.
C3_ScoreInRange ==
    /\ \A i \in 1..Len(results) :
          IsNum(results[i].score) /\ results[i].score.v \in 0..100
    /\ \A i \in ScoreLines : IsNum(out[i].value) /\ out[i].value.v \in 0..100

\* the non-relative import declarations the scan of a directory finds
ImportsFound(node) == importsOfFiles(globImports(node))

\* C4: in the second analyze, a directory whose scanned files hold a
\* non-relative import declaration is reported with a positive numeric import
\* score, which is added to totalImportScore; "No imports found" is printed
\* only for a directory with no such import.
C4_ImportsReported ==
    (Analyzed /\ variant = 2) =>
        /\ \A i \in 1..Len(out) :
              /\ out[i].tag = "noImports"
                    => ImportsFound(NodeAt(fsys, out[i].path)) = <<>>
              /\ out[i].tag = "importAnalysisScore"
                    => IsNum(out[i].value) /\ out[i].value.v > 0
        /\ (\E i \in 1..Len(out) : out[i].tag = "importAnalysisScore")
              => Greater(totalImportScore, Num(0))

NoDuplicates(list) ==
    \A i, j \in 1..Len(list) : list[i] = list[j] => i = j

\* the step in which the answer callback runs to its end
Answered == pc = "asking" /\ pc' = "exited"

\* what is at a path of the disk, read from the disk itself
OnDisk(p) == p \in Dirs /\ fsys[p] # "absent"

HasLine(lines, tag) == \E i \in 1..Len(lines) : lines[i].tag = tag

\* C5: the persisted list never holds the same path twice, whatever was
\* added in whatever number of invocations, and an add of a path that is
\* already stored leaves the file as it was.
C5_NoDuplicates ==
    /\ [](NoDuplicates(Stored))
    /\ [][(Answered /\ includes(Stored, pathResolve(expandTilde(typed', home))))
             => configFile' = configFile]_vars

\* C5's case: an add was answered with a path stored by an earlier
\* invocation, and the list holds that path and another one.
C5_Witness ==
    /\ command = "undefined" /\ pc = "exited"
    /\ Len(Stored) >= 2
    /\ \E i \in 1..Len(out) :
          out[i].tag = "saved" /\ out[i].path # Stored[Len(Stored)]

\* C6: the interactive add stores a path only if it is on disk when the
\* answer arrives: if the resolved absolute path is not there the list is
\* unchanged and "Directory does not exist" is reported; if it is there,
\* what the list then holds is the tilde-expanded absolute path, appended
\* unless already stored, and not the text typed; and while the prompt
\* waits, or when the callback throws, nothing is stored.
C6_AddOnlyExisting ==
    [][/\ Answered =>
             LET abs == pathResolve(expandTilde(typed', home))
             IN  IF OnDisk(abs)
                 THEN /\ includes(configFile'.directories, abs)
                      /\ configFile'.directories \in {Stored, Append(Stored, abs)}
                      /\ ~HasLine(out', "notExist")
                 ELSE /\ configFile' = configFile
                      /\ HasLine(out', "notExist")
       /\ (pc = "asking" /\ ~Answered) => configFile' = configFile]_vars

\* C6's case: the text typed began with a tilde and the home directory's
\* child, which was on disk, was stored under its absolute path; the text
\* itself is not in the list.
C6_Witness ==
    /\ command = "undefined" /\ pc = "exited"
    /\ typed = <<"~", "a">>
    /\ HasLine(out, "saved")
    /\ Stored[Len(Stored)] = HomeA
    /\ ~includes(Stored, typed)

\* what analyzeDependencies gives for a stored directory as the disk is
DepsOf(d) == analyzeDependencies(NodeAt(fsys, d))

RECURSIVE SumCounts(_, _)
\* the counts of the entries of deps that carry the name
SumCounts(deps, name) ==
    IF deps = <<>> THEN 0
    ELSE (IF Head(deps).name = name THEN Head(deps).count ELSE 0)
         + SumCounts(Tail(deps), name)

RECURSIVE TotalOver(_, _)
TotalOver(dirs, name) ==
    IF dirs = <<>> THEN 0
    ELSE SumCounts(DepsOf(Head(dirs)), name) + TotalOver(Tail(dirs), name)

UsedIn(d, name) == \E i \in 1..Len(DepsOf(d)) : DepsOf(d)[i].name = name

StoredSet == {Stored[i] : i \in 1..Len(Stored)}

VersionsSeen(name) ==
    UNION {{DepsOf(d)[i].version :
               i \in {k \in 1..Len(DepsOf(d)) : DepsOf(d)[k].name = name}} :
           d \in StoredSet}

IsRankLine(l) == l.tag = "rank"

\* C8: when the second analyze reaches its end, the tally holds each used
\* dependency name once, with the sum of its usage counts over the stored
\* directories, the set of the stored directories using it and the set of
\* the versions seen there; the ranking is the tally in order of
\* non-increasing count; and a process that has not analysed holds no tally.
C8_TallyAtEnd ==
    /\ (Analyzed /\ variant = 2 /\ pc = "exited") =>
          /\ \A i, j \in 1..Len(dependencyUsage) :
                dependencyUsage[i].name = dependencyUsage[j].name => i = j
          /\ {dependencyUsage[i].name : i \in 1..Len(dependencyUsage)}
                = {n \in {"p", "q", "r", "s"} : \E d \in StoredSet : UsedIn(d, n)}
          /\ \A i \in 1..Len(dependencyUsage) :
                LET u == dependencyUsage[i]
                IN  /\ u.count = TotalOver(Stored, u.name)
                    /\ u.dirs = {d \in StoredSet : UsedIn(d, u.name)}
                    /\ u.versions = VersionsSeen(u.name)
          /\ Len(rankedDependencies) = Len(dependencyUsage)
          /\ {rankedDependencies[i] : i \in 1..Len(rankedDependencies)}
                = {dependencyUsage[i] : i \in 1..Len(dependencyUsage)}
          /\ \A i \in 1..Len(rankedDependencies) - 1 :
                rankedDependencies[i].count >= rankedDependencies[i + 1].count
          /\ LET printed == SelectSeq(out, IsRankLine)
             IN  /\ Len(printed) = Len(rankedDependencies)
                 /\ \A i \in 1..Len(printed) :
                       /\ printed[i].name = rankedDependencies[i].name
                       /\ printed[i].value = Num(rankedDependencies[i].count)
    /\ ~Analyzed => dependencyUsage = <<>> /\ rankedDependencies = <<>>

\* C8's case: the second analyze ended with a dependency tallied over two
\* directories in two versions, and a ranking of unequal counts.
C8_Witness ==
    /\ Analyzed /\ variant = 2 /\ pc = "exited"
    /\ \E i \in 1..Len(dependencyUsage) :
          /\ Cardinality(dependencyUsage[i].dirs) >= 2
          /\ Cardinality(dependencyUsage[i].versions) >= 2
    /\ Len(rankedDependencies) >= 2
    /\ rankedDependencies[1].count > rankedDependencies[Len(rankedDependencies)].count

InRange(x, lo, hi) == IsNum(x) /\ x.v >= lo /\ x.v <= hi

\* C10: every component of the score of a directory analysed with success
\* is within its stated maximum, whatever the clock: files 0..30, size 0..30,
\* age 0..30, dependencies 0..15, imports 0..15.
C10_ComponentsWithinMax ==
    \A i \in 1..Len(results) :
        ~IsError(results[i]) =>
            LET r == results[i]
                node == NodeAt(fsys, r.path)
            IN  /\ InRange(fileCountPoints(node), 0, 30)
                /\ InRange(sizePoints(node), 0, 30)
                /\ InRange(agePoints(node, now), 0, 30)
                /\ InRange(dependencyPoints(r.dependencyScore), 0, 15)
                /\ InRange(importPoints(r.importScore), 0, 15)

\* the names package.json declares, under dependencies or devDependencies
Declared(node) ==
    IF HasManifest(node) /\ node.manifest.state = "ok"
    THEN {node.manifest.dependencies[i].name : i \in 1..Len(node.manifest.dependencies)}
         \cup {node.manifest.devDependencies[i].name :
                  i \in 1..Len(node.manifest.devDependencies)}
    ELSE {}

\* the source files outside node_modules, dist and build, by their place
Scanned(node) ==
    {i \in 1..Len(node.files) :
        /\ node.files[i].ext \in SourceExts
        /\ \A k \in 1..Len(node.files[i].dirs) : node.files[i].dirs[k] \notin IgnoredDirs}

\* the require(...) and from '...' matches of a name over the scanned files
Matches(node, name) ==
    Cardinality(UNION {{<<i, j>> : j \in {k \in 1..Len(node.files[i].body) :
                          /\ node.files[i].body[k].kind
                                \in {"require", "importFrom", "exportFrom"}
                          /\ node.files[i].body[k].spec[1] = name}} :
                       i \in Scanned(node)})

\* the list holds exactly the declared names with a match, each once, with
\* its number of matches
ExactlyTheUsed(list, node) ==
    /\ {list[i].name : i \in 1..Len(list)}
          = {n \in Declared(node) : Matches(node, n) >= 1}
    /\ \A i, j \in 1..Len(list) : list[i].name = list[j].name => i = j
    /\ \A i \in 1..Len(list) : list[i].count = Matches(node, list[i].name)

\* C7 as stated: analyzeDependencies returns exactly the declared
\* dependencies with a usage count of 1 at least, each once, the count being
\* the matches over the scanned files outside node_modules, dist and build;
\* with no package.json it returns the empty list.
C7_ExactlyDeclaredAndUsed ==
    called = "returned" =>
        /\ ExactlyTheUsed(returned, project)
        /\ ~HasManifest(project) => returned = <<>>

\* C7 amended: that holds when package.json parses and every scanned file
\* can be read; when package.json is missing or does not parse, or a scanned
\* file cannot be read, the result is the empty list, whatever is used.
C7_ExactlyDeclaredAndUsedIfReadable ==
    called = "returned" =>
        IF /\ HasManifest(project) /\ project.manifest.state = "ok"
           /\ \A i \in Scanned(project) : project.files[i].readable
        THEN ExactlyTheUsed(returned, project)
        ELSE returned = <<>>

\* C7's case: of three declared names two are returned, the third being
\* matched only below a nested node_modules, while an undeclared package is
\* required by a scanned file.
C7_Witness ==
    /\ called = "returned"
    /\ Cardinality(Declared(project)) = 3
    /\ Len(returned) = 2
    /\ returned[1].count > returned[2].count
    /\ \E i \in 1..Len(project.files) :
          /\ "node_modules" \in {project.files[i].dirs[k] : k \in 1..Len(project.files[i].dirs)}
          /\ \E j \in 1..Len(project.files[i].body) : project.files[i].body[j].spec = <<"r">>
    /\ Matches(project, "s") >= 1

\* every package an argument of calculateScore names
Named ==
    {depData.items[i][1] : i \in 1..Len(depData.items)}
    \cup {importData.directDeps.items[i] : i \in 1..Len(importData.directDeps.items)}
    \cup {importData.importAnalysis.items[i].package :
             i \in 1..Len(importData.importAnalysis.items)}

\* the sum of F over the places of a sequence
SumOver(s, F(_)) ==
    LET RECURSIVE upTo(_)
        upTo(n) == IF n = 0 THEN 0 ELSE F(s[n]) + upTo(n - 1)
    IN  upTo(Len(s))

\* 2 * its dependency counts + 30 per occurrence in directDeps
\* + 5 * its import usage counts + 25 per entry flagged as entry point
ExpectedScore(pkg) ==
    LET count(d) == IF d[1] = pkg THEN d[2] ELSE 0
        occurs(d) == IF d = pkg THEN 1 ELSE 0
        usage(i) == IF i.package = pkg THEN i.usageCount ELSE 0
        flagged(i) == IF i.package = pkg /\ i.isInEntryPoint THEN 1 ELSE 0
    IN  2 * SumOver(depData.items, count)
        + 30 * SumOver(importData.directDeps.items, occurs)
        + 5 * SumOver(importData.importAnalysis.items, usage)
        + 25 * SumOver(importData.importAnalysis.items, flagged)

\* C9: calculateScore returns one entry for each distinct package named in
\* depData, directDeps or importAnalysis, in order of non-increasing score,
\* the score of a package being 2 * its dependency counts + 30 per occurrence
\* in directDeps + 5 * its import usage counts + 25 per entry-point entry.
C9_OneEntryPerPackageByScore ==
    called = "scored" =>
        /\ Len(ranking) = Cardinality(Named)
        /\ {ranking[i].package : i \in 1..Len(ranking)} = Named
        /\ \A i \in 1..Len(ranking) : ranking[i].score = ExpectedScore(ranking[i].package)
        /\ \A i \in 1..Len(ranking) - 1 : ranking[i].score >= ranking[i + 1].score

\* C9's case: a package named twice in depData, in directDeps and in a
\* flagged import entry is ranked first although another was named first.
C9_Witness ==
    /\ called = "scored"
    /\ Len(ranking) >= 2
    /\ ranking[1].score > ranking[2].score
    /\ depData.items # <<>>
    /\ depData.items[1][1] # ranking[1].package
    /\ Cardinality({i \in 1..Len(depData.items) :
                       depData.items[i][1] = ranking[1].package}) >= 1
    /\ ranking[1].details.isDirect
    /\ ranking[1].details.isInEntryPoint

\* the lines of the first analyze that carry a score, in the order printed
IsScoreLine(l) == l.tag = "score"

\* C11: the first analyze prints the stored directories in order of
\* non-increasing score, every stored directory exactly once, and the
\* directories that failed to analyse (score 0) after all the others.
C11_PrintedByScore ==
    (Analyzed /\ variant = 1) =>
        LET printed == SelectSeq(out, IsScoreLine)
        IN  /\ Len(printed) = Len(Stored)
            /\ {printed[i].path : i \in 1..Len(printed)} = StoredSet
            /\ \A i \in 1..Len(printed) - 1 :
                  /\ IsNum(printed[i].value) /\ IsNum(printed[i + 1].value)
                  /\ printed[i].value.v >= printed[i + 1].value.v
            /\ \A i, j \in 1..Len(results) :
                  (i < j /\ IsError(results[i])) => IsError(results[j])

\* an argument the validation of calculateScore rejects
Malformed ==
    \/ ~IsArray(depData)
    \/ importData.kind # "object"
    \/ ~IsArray(importData.directDeps)
    \/ ~IsArray(importData.importAnalysis)

\* the Error that names the first offending argument
ExpectedMessage ==
    IF ~IsArray(depData) THEN "depData must be an array"
    ELSE IF importData.kind # "object" THEN "importData must be an object"
    ELSE IF ~IsArray(importData.directDeps) THEN "importData.directDeps must be an array"
    ELSE "importData.importAnalysis must be an array"

\* C12: calculateScore throws exactly when depData is not an array,
\* importData not an object, or directDeps or importAnalysis not an array:
\* then the Error names the offending argument and no ranking is returned;
\* with arguments of the right kinds it never throws and returns a list.
C12_RejectsMalformedOnly ==
    /\ called = "threw" => Malformed /\ thrown = ExpectedMessage /\ ranking = <<>>
    /\ called = "scored" => ~Malformed

IsPrefix(a, b) == Len(a) <= Len(b) /\ SubSeq(b, 1, Len(a)) = a

\* C13: the persisted list is append-only: whatever happens, the list before
\* is a prefix of the list after and grows by one path at most; a run of
\* list, analyze or an unknown command leaves it as it was, and only the
\* answer to the prompt appends, at the end.
C13_AppendOnly ==
    [][/\ IsPrefix(Stored, configFile'.directories)
       /\ Len(configFile'.directories) <= Len(Stored) + 1
       /\ command' \in {"list", "analyze", "other"} => configFile'.directories = Stored
       /\ configFile'.directories # Stored => Answered]_vars

\* C13's case: with two paths stored by earlier runs, an add appended a
\* third behind them.
C13_Witness ==
    /\ command = "undefined" /\ pc = "exited"
    /\ Len(Stored) = 3
    /\ \E i \in 1..Len(out) : out[i].tag = "saved" /\ out[i].path = Stored[3]

\* C14: every invocation closes the readline interface: once, by the end of
\* the branch for list, analyze and unknown commands; for the prompt once,
\* after the answer callback ran, and not while the answer is awaited.
C14_ReadlineClosed ==
    /\ pc = "asking" => rlClosed = 0
    /\ pc \in {"exited", "crashed"} => rlClosed = 1
    /\ rlClosed <= 1

====
